---- MODULE Spec2Model ----
(***************************************************************************)
(* PDF-to-Json: the upload widget (FileUpload), the application state and  *)
(* its two handlers (App.handleFileSelected, App.handleReset), the remote  *)
(* extraction branch (parsePdfWithGemini) and the local extraction branch  *)
(* (parsePdfLocal), joined by Promise.all.                                 *)
(*                                                                         *)
(* Every `await` of the source is a point where the event loop may run     *)
(* something else, so each awaited operation is one action.  A JavaScript  *)
(* value that may be null/undefined is modelled as a sequence of length 0  *)
(* (Null) or 1 (Some(v)).  window.alert blocks the only thread until the   *)
(* dialog is dismissed, so nothing else runs while alertOpen.              *)
(*                                                                         *)
(* The result viewer (JsonViewer) is a function of the stored result and   *)
(* of its own tab; its handlers are the actions of ViewerSpec, where the   *)
(* texts it writes are sequences of one-character strings.                 *)
(***************************************************************************)
EXTENDS Integers, Sequences, FiniteSets, TLC

VARIABLES status, result, errorMsg, file, isDragging, uploads, alertOpen, viewer

vars == <<status, result, errorMsg, file, isDragging, uploads, alertOpen, viewer>>

appState == <<status, result, errorMsg, file>>

(* ----------------------------- bounds ---------------------------------- *)

\* number of accepted uploads (calls of handleFileSelected) in one run
MaxUploads == 2

\* largest page count of a document handed to the local branch
MaxPages == 2

\* largest number of text items on a page
MaxItems == 2

\* longest description of a transaction, in characters
MaxDescLen == 2

\* longest transaction list built from the two example transactions
MaxTx == 2

(* ----------------------------- values ---------------------------------- *)

Null == <<>>

Some(v) == <<v>>

ParseStatus == {"IDLE", "PROCESSING", "SUCCESS", "ERROR"}

PdfMime == "application/pdf"

\* the files the user can pick: one PDF, one file named like a PDF whose
\* declared MIME type is another one, one text file
Files ==
  { [name |-> "statement.pdf", type |-> "application/pdf"],
    [name |-> "scan.pdf",      type |-> "application/x-pdf"],
    [name |-> "notes.txt",     type |-> "text/plain"] }

\* e.dataTransfer.files / e.target.files: only files[0] is ever read
FileLists == {<<>>} \cup {<<f>> : f \in Files}

UnknownErrorMsg == "An unknown error occurred while parsing the PDF."

NoTextMsg == "No response text received from Gemini."

LocalSentinel == "Error: Could not extract raw text from PDF for comparison."

(* ------------------- remote branch: pure parts ------------------------- *)

\* the well-formed JSON documents the service answers with, with the
\* value JSON.parse gives for each; the keys are those of responseSchema
FullJsonText == "{\"metadata\":{},\"transactions\":[],\"pages\":[]}"

PartJsonText == "{\"metadata\":{},\"pages\":[]}"

JsonDocuments ==
  { [text  |-> FullJsonText,
     value |-> [metadata |-> "{}", transactions |-> "[]", pages |-> "[]"]],
    [text  |-> PartJsonText,
     value |-> [metadata |-> "{}", pages |-> "[]"]] }

\* a truncated document: JSON.parse throws SyntaxError on it
MalformedText == "{\"metadata\":"

SyntaxError == [name |-> "SyntaxError", message |-> "Unexpected end of JSON input"]

\* JSON.parse: Some(value) for a well-formed text, Null where it throws
JSONparse(text) ==
  IF \E d \in JsonDocuments : d.text = text
  THEN Some((CHOOSE d \in JsonDocuments : d.text = text).value)
  ELSE Null

FullUsage ==
  [promptTokenCount |-> 3, candidatesTokenCount |-> 2, totalTokenCount |-> 5]

\* the responses generateContent can resolve to: text undefined, empty,
\* malformed or well-formed; usageMetadata undefined, complete or partial
Responses ==
  { [text |-> Null,                usageMetadata |-> Some(FullUsage)],
    [text |-> Some(""),            usageMetadata |-> Null],
    [text |-> Some(MalformedText), usageMetadata |-> Null],
    [text |-> Some(FullJsonText),  usageMetadata |-> Some(FullUsage)],
    [text |-> Some(FullJsonText),  usageMetadata |-> Null],
    [text |-> Some(PartJsonText),  usageMetadata |-> Some([promptTokenCount |-> 3])] }

\* what generateContent can reject with (auth, quota, network)
CallErrors == { [name |-> "ApiError", message |-> "API key not valid"] }

\* what reader.onerror hands to reject: a ProgressEvent, which has no message
ProgressEvent == [type |-> "error"]

\* usage?.<key> || 0
OrZero(usage, key) ==
  IF usage = Null THEN 0
  ELSE IF key \in DOMAIN usage[1] THEN usage[1][key] ELSE 0

\* responseTokens read from the wrong counter
tokenUsageWrongCounter(usage) ==
  [promptTokens   |-> OrZero(usage, "promptTokenCount"),
   responseTokens |-> OrZero(usage, "totalTokenCount"),
   totalTokens    |-> OrZero(usage, "totalTokenCount")]

\* usage?.promptTokenCount || 0, usage?.candidatesTokenCount || 0, ...
tokenUsage(usage) ==
  [promptTokens   |-> OrZero(usage, "promptTokenCount"),
   responseTokens |-> OrZero(usage, "candidatesTokenCount"),
   totalTokens    |-> OrZero(usage, "totalTokenCount")]

\* { ...obj, [key]: value }
Spread(obj, key, value) ==
  [k \in DOMAIN obj \cup {key} |-> IF k = key THEN value ELSE obj[k]]

\* !response.text
NoText(response) == response.text = Null \/ response.text = Some("")

\* parsePdfWithGemini from the response on: how the promise settles
Fulfilled(v) == [st |-> "fulfilled", val |-> v]

Rejected(e) == [st |-> "rejected", val |-> e]

responseOutcome(response) ==
  IF NoText(response) THEN Rejected([name |-> "Error", message |-> NoTextMsg])
  ELSE IF JSONparse(response.text[1]) = Null THEN Rejected(SyntaxError)
  ELSE Fulfilled(Spread(JSONparse(response.text[1])[1], "tokenUsage",
                        tokenUsage(response.usageMetadata)))

(* -------------------- local branch: pure parts ------------------------- *)

\* the text items getTextContent returns for page i
PageItems(i) == IF i % 2 = 1 THEN <<"A", "B">> ELSE <<"C">>

\* a loaded document: pdf.numPages and, per page, the items of
\* getTextContent
Document(pages) == [numPages |-> Len(pages), items |-> pages]

\* the documents getDocument can resolve to: without pages, with MaxPages
PdfDocuments == { Document([i \in 1..n |-> PageItems(i)]) : n \in {0, MaxPages} }

NoDocument == Document(<<>>)

\* the str of a text item; pdf.js also yields items whose str is empty
Strs == {"", "A"}

\* the item lists of a page, up to MaxItems items
ItemLists == UNION { [1..k -> Strs] : k \in 0..MaxItems }

\* every document of up to MaxPages pages
TextDocuments == UNION { { Document(ps) : ps \in [1..n -> ItemLists] } : n \in 0..MaxPages }

\* items.map(item => item.str).join(' ')
RECURSIVE join(_, _)
join(items, sep) ==
  IF items = <<>> THEN ""
  ELSE IF Len(items) = 1 THEN items[1]
  ELSE items[1] \o sep \o join(Tail(items), sep)

\* `--- PAGE ${i} ---\n\n${pageText}\n\n`
pageBlock(i, pageText) ==
  "--- PAGE " \o ToString(i) \o " ---\n\n" \o pageText \o "\n\n"

(* ------------------------ application state ---------------------------- *)

\* the two promises handleFileSelected creates, each at its first await
NewUpload(f) ==
  [file   |-> f,
   remote |-> [st |-> "reading", response |-> Null, val |-> Null, calls |-> 1],
   local  |-> [st |-> "arrayBuffer", doc |-> NoDocument, i |-> 0,
               fullText |-> "", threw |-> FALSE, val |-> Null, calls |-> 1],
   join   |-> "pending",
   built  |-> 0]

Tabs == {"ai-json", "raw-text", "transactions"}

\* useState(false), useState('ai-json'): a viewer that has just mounted and
\* has saved nothing
ViewerMounted == [activeTab |-> "ai-json", table |-> Null, download |-> Null]

Init ==
  /\ status = "IDLE"
  /\ result = Null
  /\ errorMsg = Null
  /\ file = Null
  /\ isDragging = FALSE
  /\ uploads = <<>>
  /\ alertOpen = FALSE
  /\ viewer = ViewerMounted

\* a <FileUpload> that stays on screen next to the result
FileUploadMountedAlways == TRUE

\* <FileUpload> is rendered in IDLE, PROCESSING and ERROR
FileUploadMounted == status \in {"IDLE", "PROCESSING", "ERROR"}

\* an isLoading prop that is never raised
isLoadingNever == FALSE

\* isLoading={status === ParseStatus.PROCESSING}
isLoading == status = "PROCESSING"

\* a looser test: any MIME type that mentions pdf
IsPdfLoose(f) == f.type \in {"application/pdf", "application/x-pdf"}

\* file.type === 'application/pdf'
IsPdf(f) == f.type = PdfMime

\* a handler that leaves the previous error message in place
handleFileSelectedKeepsError(selectedFile) ==
  /\ Len(uploads) < MaxUploads
  /\ status' = "PROCESSING"
  /\ errorMsg' = errorMsg
  /\ file' = Some(selectedFile)
  /\ result' = Null
  /\ uploads' = Append(uploads, NewUpload(selectedFile))

\* App.handleFileSelected up to its await
handleFileSelected(selectedFile) ==
  /\ Len(uploads) < MaxUploads
  /\ status' = "PROCESSING"
  /\ errorMsg' = Null
  /\ file' = Some(selectedFile)
  /\ result' = Null
  /\ uploads' = Append(uploads, NewUpload(selectedFile))

\* the body handleDrop and handleFileChange share
selectFrom(files) ==
  IF isLoading \/ files = <<>>
  THEN UNCHANGED <<appState, uploads, alertOpen>>
  ELSE IF IsPdf(files[1])
  THEN /\ handleFileSelected(files[1])
       /\ UNCHANGED alertOpen
  ELSE /\ alertOpen' = TRUE
       /\ UNCHANGED <<appState, uploads>>

\* the user closes the dialog of alert("Please upload a PDF file.")
dismissAlert ==
  /\ alertOpen
  /\ alertOpen' = FALSE
  /\ UNCHANGED <<appState, isDragging, uploads>>
  /\ UNCHANGED viewer

handleDragOver ==
  /\ ~alertOpen
  /\ FileUploadMounted
  /\ isDragging' = TRUE
  /\ UNCHANGED <<appState, uploads, alertOpen>>
  /\ UNCHANGED viewer

handleDragLeave ==
  /\ ~alertOpen
  /\ FileUploadMounted
  /\ isDragging' = FALSE
  /\ UNCHANGED <<appState, uploads, alertOpen>>
  /\ UNCHANGED viewer

handleDrop(files) ==
  /\ ~alertOpen
  /\ FileUploadMounted
  /\ isDragging' = FALSE
  /\ selectFrom(files)
  /\ UNCHANGED viewer

handleFileChange(files) ==
  /\ ~alertOpen
  /\ FileUploadMounted
  /\ selectFrom(files)
  /\ UNCHANGED isDragging
  /\ UNCHANGED viewer

\* a "New File" button that is also offered while processing
NewFileButtonWhileProcessing == status \in {"SUCCESS", "PROCESSING"}

\* a "New File" button that is also offered next to the error panel
NewFileButtonInError == status \in {"SUCCESS", "ERROR"}

\* {status === ParseStatus.SUCCESS && (<button onClick={handleReset}>...)}
NewFileButtonRendered == status = "SUCCESS"

\* a reset that forgets setFile(null)
handleResetKeepsFile ==
  /\ ~alertOpen
  /\ NewFileButtonRendered
  /\ status' = "IDLE"
  /\ result' = Null
  /\ errorMsg' = Null
  /\ file' = file
  /\ UNCHANGED <<isDragging, uploads, alertOpen>>
  /\ UNCHANGED viewer

handleReset ==
  /\ ~alertOpen
  /\ NewFileButtonRendered
  /\ status' = "IDLE"
  /\ result' = Null
  /\ errorMsg' = Null
  /\ file' = Null
  /\ UNCHANGED <<isDragging, uploads, alertOpen>>
  /\ UNCHANGED viewer

(* --------------------------- remote branch ----------------------------- *)

Runs == 1..Len(uploads)

\* aiResult and rawText are constants of the try block: once the
\* continuation of the await has run nothing holds the settled values
release(u) ==
  IF u.join = "pending" THEN u
  ELSE [u EXCEPT !.remote = [@ EXCEPT !.response = Null, !.val = Null],
                 !.local = IF @.st = "fulfilled"
                           THEN [@ EXCEPT !.doc = NoDocument, !.val = Null,
                                          !.threw = FALSE]
                           ELSE @]

setRemote(r, rec) == [uploads EXCEPT ![r] = release([@ EXCEPT !.remote = rec])]

setLocal(r, rec) == [uploads EXCEPT ![r] = release([@ EXCEPT !.local = rec])]

setJoin(r, outcome, n) ==
  [uploads EXCEPT ![r] = release([@ EXCEPT !.join = outcome, !.built = @ + n])]

\* await fileToGenerativePart(file): onloadend resolves, onerror rejects and
\* the catch of parsePdfWithGemini rethrows the same value
fileToGenerativePart(r, ok) ==
  /\ ~alertOpen
  /\ r \in Runs
  /\ uploads[r].remote.st = "reading"
  /\ uploads' = setRemote(r,
        IF ok THEN [uploads[r].remote EXCEPT !.st = "calling"]
        ELSE [uploads[r].remote EXCEPT !.st = "rejected", !.val = Some(ProgressEvent)])
  /\ UNCHANGED <<appState, isDragging, alertOpen>>
  /\ UNCHANGED viewer

\* await ai.models.generateContent(...) resolves to a response, which the
\* rest of parsePdfWithGemini turns into its return value or a throw
generateContentResolves(r, response) ==
  /\ ~alertOpen
  /\ r \in Runs
  /\ uploads[r].remote.st = "calling"
  /\ uploads' = setRemote(r,
        [uploads[r].remote EXCEPT !.st = responseOutcome(response).st,
                                  !.val = Some(responseOutcome(response).val),
                                  !.response = Some(response)])
  /\ UNCHANGED <<appState, isDragging, alertOpen>>
  /\ UNCHANGED viewer

\* await ai.models.generateContent(...) rejects; the catch rethrows
generateContentRejects(r, error) ==
  /\ ~alertOpen
  /\ r \in Runs
  /\ uploads[r].remote.st = "calling"
  /\ uploads' = setRemote(r,
        [uploads[r].remote EXCEPT !.st = "rejected", !.val = Some(error)])
  /\ UNCHANGED <<appState, isDragging, alertOpen>>
  /\ UNCHANGED viewer

(* ---------------------------- local branch ----------------------------- *)

\* a catch that returns what was accumulated so far
localCatchPartial(fullText) == fullText

\* the value the catch block of parsePdfLocal returns
localCatch(fullText) == LocalSentinel

\* any throw inside the try: the promise is fulfilled with the catch's value
localThrows(l) ==
  [l EXCEPT !.st = "fulfilled", !.threw = TRUE, !.val = Some(localCatch(l.fullText)),
            !.doc = NoDocument, !.i = 0, !.fullText = ""]

\* a loop that stops one page early: i < pdf.numPages
localLoopOffByOne(l) ==
  IF l.i < l.doc.numPages
  THEN [l EXCEPT !.st = "getPage"]
  ELSE [l EXCEPT !.st = "fulfilled", !.val = Some(l.fullText),
                 !.i = 0, !.fullText = ""]

\* the head of the for loop: next page, or return fullText
localLoop(l) ==
  IF l.i <= l.doc.numPages
  THEN [l EXCEPT !.st = "getPage"]
  ELSE [l EXCEPT !.st = "fulfilled", !.val = Some(l.fullText),
                 !.i = 0, !.fullText = ""]

\* await file.arrayBuffer()
localArrayBuffer(r, ok) ==
  /\ ~alertOpen
  /\ r \in Runs
  /\ uploads[r].local.st = "arrayBuffer"
  /\ uploads' = setLocal(r,
        IF ok THEN [uploads[r].local EXCEPT !.st = "getDocument"]
        ELSE localThrows(uploads[r].local))
  /\ UNCHANGED <<appState, isDragging, alertOpen>>
  /\ UNCHANGED viewer

\* await pdfjsLib.getDocument({data}).promise; fullText = ''; i = 1
localGetDocument(r, pdf) ==
  /\ ~alertOpen
  /\ r \in Runs
  /\ uploads[r].local.st = "getDocument"
  /\ uploads' = setLocal(r,
        IF pdf = Null THEN localThrows(uploads[r].local)
        ELSE localLoop([uploads[r].local EXCEPT !.doc = pdf[1], !.i = 1,
                                                !.fullText = ""]))
  /\ UNCHANGED <<appState, isDragging, alertOpen>>
  /\ UNCHANGED viewer

\* await pdf.getPage(i)
localGetPage(r, ok) ==
  /\ ~alertOpen
  /\ r \in Runs
  /\ uploads[r].local.st = "getPage"
  /\ uploads' = setLocal(r,
        IF ok THEN [uploads[r].local EXCEPT !.st = "getTextContent"]
        ELSE localThrows(uploads[r].local))
  /\ UNCHANGED <<appState, isDragging, alertOpen>>
  /\ UNCHANGED viewer

\* await page.getTextContent(); fullText += block; i++
localGetTextContent(r, ok) ==
  /\ ~alertOpen
  /\ r \in Runs
  /\ uploads[r].local.st = "getTextContent"
  /\ uploads' = setLocal(r,
        IF ok
        THEN localLoop([uploads[r].local EXCEPT
               !.fullText = @ \o pageBlock(uploads[r].local.i,
                                           join(uploads[r].local.doc.items[uploads[r].local.i], " ")),
               !.i = @ + 1])
        ELSE localThrows(uploads[r].local))
  /\ UNCHANGED <<appState, isDragging, alertOpen>>
  /\ UNCHANGED viewer

(* ------------------------------- join ---------------------------------- *)

\* a merge that copies the schema's fields by name and forgets the rest
mergeResultByName(aiResult, rawText) ==
  [k \in (DOMAIN aiResult \cap {"metadata", "pages", "transactions"})
          \cup {"standardRawText"} |->
     IF k = "standardRawText" THEN rawText ELSE aiResult[k]]

\* { ...aiResult, standardRawText: rawText }
mergeResult(aiResult, rawText) == Spread(aiResult, "standardRawText", rawText)

\* a catch that always shows the generic text
errorMessageGeneric(err) == UnknownErrorMsg

\* err.message || "An unknown error occurred while parsing the PDF."
errorMessage(err) ==
  IF "message" \in DOMAIN err /\ err.message # "" THEN err.message
  ELSE UnknownErrorMsg

\* Promise.allSettled-like: the rejection is seen once both have settled
PromiseAllSettledRejected(u) ==
  /\ u.remote.st = "rejected" \/ u.local.st = "rejected"
  /\ u.remote.st \in {"fulfilled", "rejected"}
  /\ u.local.st \in {"fulfilled", "rejected"}

\* Promise.all([remote, local]) is rejected as soon as one input is
\* rejected and fulfilled once all are fulfilled
PromiseAllRejected(u) == u.remote.st = "rejected" \/ u.local.st = "rejected"

PromiseAllFulfilled(u) == u.remote.st = "fulfilled" /\ u.local.st = "fulfilled"

\* the reason Promise.all is rejected with: that of the rejected input
rejectionReason(u) ==
  IF u.remote.st = "rejected" THEN u.remote.val[1] ELSE u.local.val[1]

\* the catch block of handleFileSelected
resumeCatch(r) ==
  /\ PromiseAllRejected(uploads[r])
  /\ errorMsg' = Some(errorMessage(rejectionReason(uploads[r])))
  /\ status' = "ERROR"
  /\ uploads' = setJoin(r, "rejected", 0)
  /\ UNCHANGED <<result, file, isDragging>>

\* the rest of the try block of handleFileSelected
resumeTry(r) ==
  /\ ~PromiseAllRejected(uploads[r])
  /\ PromiseAllFulfilled(uploads[r])
  /\ result' = Some(mergeResult(uploads[r].remote.val[1], uploads[r].local.val[1]))
  /\ status' = "SUCCESS"
  /\ uploads' = setJoin(r, "fulfilled", 1)
  \* <FileUpload> unmounts in SUCCESS and loses its own state
  /\ isDragging' = FALSE
  /\ UNCHANGED <<errorMsg, file>>

\* a join with a timeout: gives up while the remote call is in flight
handleFileSelectedResumeTimeout(r) ==
  /\ ~alertOpen
  /\ r \in Runs
  /\ uploads[r].join = "pending"
  /\ \/ resumeCatch(r)
     \/ resumeTry(r)
     \/ /\ uploads[r].remote.st = "calling"
        /\ errorMsg' = Some("Timed out")
        /\ status' = "ERROR"
        /\ uploads' = setJoin(r, "rejected", 0)
        /\ UNCHANGED <<result, file, isDragging>>
  /\ UNCHANGED alertOpen
  /\ UNCHANGED viewer

\* a join that calls the remote branch a second time after a failure
handleFileSelectedResumeRetry(r) ==
  /\ ~alertOpen
  /\ r \in Runs
  /\ uploads[r].join = "pending"
  /\ \/ /\ uploads[r].remote.calls >= 2
        /\ resumeCatch(r)
     \/ resumeTry(r)
     \/ /\ uploads[r].remote.calls < 2
        /\ PromiseAllRejected(uploads[r])
        /\ uploads' = [uploads EXCEPT ![r].remote =
             [st |-> "reading", response |-> Null, val |-> Null, calls |-> @.calls + 1]]
        /\ UNCHANGED <<appState, isDragging>>
  /\ UNCHANGED alertOpen
  /\ UNCHANGED viewer

\* handleFileSelected after its await: the try continuation or the catch
handleFileSelectedResume(r) ==
  /\ ~alertOpen
  /\ r \in Runs
  /\ uploads[r].join = "pending"
  /\ (resumeCatch(r) \/ resumeTry(r))
  /\ UNCHANGED alertOpen
  /\ UNCHANGED viewer

(* ------------------------- viewer: pure parts -------------------------- *)

\* Texts the viewer writes character by character are sequences of
\* one-character strings.  An amount is a number with at most two decimals,
\* held as its count of hundredths (150000 is 1500.00, -20050 is -200.5).

\* const headers = ['Post Date', 'Trans Date', 'Description', 'Amount', 'Currency']
headers ==
  << <<"P", "o", "s", "t", " ", "D", "a", "t", "e">>,
     <<"T", "r", "a", "n", "s", " ", "D", "a", "t", "e">>,
     <<"D", "e", "s", "c", "r", "i", "p", "t", "i", "o", "n">>,
     <<"A", "m", "o", "u", "n", "t">>,
     <<"C", "u", "r", "r", "e", "n", "c", "y">> >>

Digit == <<"0", "1", "2", "3", "4", "5", "6", "7", "8", "9">>

\* the decimal digits of a natural number
RECURSIVE digits(_)
digits(n) == IF n < 10 THEN <<Digit[n + 1]>> ELSE digits(n \div 10) \o <<Digit[(n % 10) + 1]>>

\* Math.abs
abs(x) == IF x < 0 THEN 0 - x ELSE x

\* Number.prototype.toString, as Array.prototype.join applies it to t.amount:
\* a minus sign for a negative number, no trailing zeros, no point for an
\* integer
NumberToString(amount) ==
  LET a  == abs(amount)
      fr == a % 100
  IN  (IF amount < 0 THEN <<"-">> ELSE <<>>)
      \o digits(a \div 100)
      \o (IF fr = 0 THEN <<>>
          ELSE IF fr % 10 = 0 THEN <<".", Digit[(fr \div 10) + 1]>>
          ELSE <<".", Digit[(fr \div 10) + 1], Digit[(fr % 10) + 1]>>)

\* x.toFixed(2) for x >= 0
toFixed2(x) ==
  digits(x \div 100) \o <<".", Digit[((x % 100) \div 10) + 1], Digit[(x % 10) + 1]>>

\* a replace that leaves the quotes as they are
replaceQuotesNot(description) == description

\* description.replace(/"/g, '""')
RECURSIVE replaceQuotes(_)
replaceQuotes(description) ==
  IF description = <<>> THEN <<>>
  ELSE (IF Head(description) = "\"" THEN <<"\"", "\"">> ELSE <<Head(description)>>)
       \o replaceQuotes(Tail(description))

\* `"${t.description.replace(/"/g, '""')}"`
quoteDescription(description) == <<"\"">> \o replaceQuotes(description) \o <<"\"">>

\* t => [t.post_date, t.trans_date, `"..."`, t.amount, t.currency], each cell
\* as the text join() makes of it
rowCells(t) ==
  <<t.post_date, t.trans_date, quoteDescription(t.description),
    NumberToString(t.amount), t.currency>>

\* [headers.join(','), ...(rows?.map(r => r.join(',')) || [])].join('\n')
csvContent(data) ==
  LET rows == IF "transactions" \in DOMAIN data
              THEN Some([k \in 1..Len(data.transactions) |-> rowCells(data.transactions[k])])
              ELSE Null
  IN  join(<<join(headers, <<",">>)>>
           \o (IF rows = Null THEN <<>>
               ELSE [k \in 1..Len(rows[1]) |-> join(rows[1][k], <<",">>)]),
           <<"\n">>)

\* data.transactions && data.transactions.length > 0
hasTransactions(data) ==
  "transactions" \in DOMAIN data /\ Len(data.transactions) > 0

\* the amount cell of a table row: its colour class, the sign in front, the
\* magnitude and the currency
amountCell(tx) ==
  [className |-> IF tx.amount < 0 THEN "text-emerald-400" ELSE "text-slate-200",
   sign      |-> IF tx.amount > 0 THEN "" ELSE "+",
   magnitude |-> toFixed2(abs(tx.amount)),
   currency  |-> tx.currency]

\* one <tr> of the transactions table
tableRow(tx) ==
  [trans_date  |-> tx.trans_date,
   post        |-> IF tx.post_date # tx.trans_date THEN Some(tx.post_date) ELSE Null,
   description |-> tx.description,
   amount      |-> amountCell(tx)]

\* what the content area shows of the transactions
renderTable(data, tab) ==
  IF tab = "transactions" /\ "transactions" \in DOMAIN data
  THEN Some([k \in 1..Len(data.transactions) |-> tableRow(data.transactions[k])])
  ELSE Null

\* JSON.stringify(data, null, 2): the JSON text, kept as the value it denotes
JSONstringify(data) == [json |-> data]

\* the transactions the viewer is given
IsoDate == <<"2", "0", "2", "6", "-", "0", "1", "-", "0", "2">>

LaterDate == <<"2", "0", "2", "6", "-", "0", "1", "-", "0", "5">>

LongDate == <<"J", "a", "n", " ", "2", ",", " ", "2", "0", "2", "6">>

LKR == <<"L", "K", "R">>

DescChars == {"a", "\"", ","}

Descriptions == UNION { [1..k -> DescChars] : k \in 0..MaxDescLen }

Amounts == {150000, 0 - 20000, 0 - 20050, 5, 0}

Transaction(pd, td, d, a, c) ==
  [post_date |-> pd, trans_date |-> td, description |-> d, amount |-> a, currency |-> c]

TxPool ==
  { Transaction(IsoDate, IsoDate, d, 150000, LKR) : d \in Descriptions }
  \cup { Transaction(LaterDate, IsoDate, <<"a">>, a, LKR) : a \in Amounts }
  \cup { Transaction(LongDate, LongDate, <<"a">>, 150000, <<"$">>) }

\* the example of the sign convention: a debit of 1500.00, a credit of 200.00
ListPool ==
  { Transaction(IsoDate, IsoDate, <<"a">>, 150000, LKR),
    Transaction(LaterDate, IsoDate, <<"\"", "a">>, 0 - 20000, LKR) }

TransactionLists ==
  { <<t>> : t \in TxPool } \cup UNION { [1..k -> ListPool] : k \in 0..MaxTx }

\* the results the viewer can be given: with a transaction list, or without
\* the key
ViewerResults ==
  LET usage == tokenUsage(Null)
      rest  == [metadata |-> "{}", pages |-> "[]"]
  IN  { mergeResult(Spread(Spread(rest, "transactions", txs), "tokenUsage", usage),
                    LocalSentinel) : txs \in TransactionLists }
      \cup { mergeResult(Spread(rest, "tokenUsage", usage), "") }

(* --------------------------- specification ----------------------------- *)

Next ==
  \/ handleDragOver
  \/ handleDragLeave
  \/ \E files \in FileLists : handleDrop(files)
  \/ \E files \in FileLists : handleFileChange(files)
  \/ handleReset
  \/ dismissAlert
  \/ \E r \in 1..MaxUploads, ok \in BOOLEAN : fileToGenerativePart(r, ok)
  \/ \E r \in 1..MaxUploads, response \in Responses : generateContentResolves(r, response)
  \/ \E r \in 1..MaxUploads, error \in CallErrors : generateContentRejects(r, error)
  \/ \E r \in 1..MaxUploads, ok \in BOOLEAN : localArrayBuffer(r, ok)
  \/ \E r \in 1..MaxUploads, pdf \in {Null} \cup {Some(d) : d \in PdfDocuments} :
        localGetDocument(r, pdf)
  \/ \E r \in 1..MaxUploads, ok \in BOOLEAN : localGetPage(r, ok)
  \/ \E r \in 1..MaxUploads, ok \in BOOLEAN : localGetTextContent(r, ok)
  \/ \E r \in 1..MaxUploads : handleFileSelectedResume(r)

Spec == Init /\ [][Next]_vars

\* the continuation of an await is a microtask: once the join has settled
\* the event loop runs it
FairSpec == Spec /\ \A r \in 1..MaxUploads : WF_vars(handleFileSelectedResume(r))

\* parsePdfLocal alone, on every document: the state right after an upload
\* was accepted, then the steps of the local call
LocalInit ==
  /\ status = "PROCESSING"
  /\ result = Null
  /\ errorMsg = Null
  /\ file = Some([name |-> "statement.pdf", type |-> PdfMime])
  /\ isDragging = FALSE
  /\ uploads = <<NewUpload([name |-> "statement.pdf", type |-> PdfMime])>>
  /\ alertOpen = FALSE
  /\ viewer = ViewerMounted

LocalNext ==
  \/ \E ok \in BOOLEAN : localArrayBuffer(1, ok)
  \/ /\ uploads[1].local.st = "getDocument"
     /\ \E pdf \in {Null} \cup {Some(d) : d \in TextDocuments} : localGetDocument(1, pdf)
  \/ \E ok \in BOOLEAN : localGetPage(1, ok)
  \/ \E ok \in BOOLEAN : localGetTextContent(1, ok)

LocalSpec == LocalInit /\ [][LocalNext]_vars

\* the viewer alone, on every result of ViewerResults: the state right after
\* a run has succeeded, then the viewer's handlers
ViewerInit ==
  /\ status = "SUCCESS"
  /\ result \in { Some(data) : data \in ViewerResults }
  /\ errorMsg = Null
  /\ file = Some([name |-> "statement.pdf", type |-> PdfMime])
  /\ isDragging = FALSE
  /\ uploads = <<release([NewUpload([name |-> "statement.pdf", type |-> PdfMime])
                            EXCEPT !.remote.st = "fulfilled",
                                   !.local.st = "fulfilled",
                                   !.join = "fulfilled",
                                   !.built = 1])>>
  /\ alertOpen = FALSE
  /\ viewer = ViewerMounted

\* onClick={() => setActiveTab(tab)}; the Transactions button is rendered
\* only when hasTransactions
setActiveTab(tab) ==
  /\ ~alertOpen
  /\ status = "SUCCESS"
  /\ tab = "transactions" => hasTransactions(result[1])
  /\ viewer' = [viewer EXCEPT !.activeTab = tab, !.table = renderTable(result[1], tab)]
  /\ UNCHANGED <<appState, isDragging, uploads, alertOpen>>

\* handleDownload: the Blob that is saved, by the active tab
handleDownload ==
  /\ ~alertOpen
  /\ status = "SUCCESS"
  /\ viewer' = [viewer EXCEPT !.download =
        IF viewer.activeTab = "ai-json"
        THEN Some([content |-> JSONstringify(result[1]),
                   mimeType |-> "application/json", extension |-> "json"])
        ELSE IF viewer.activeTab = "raw-text"
        THEN Some([content |-> result[1]["standardRawText"],
                   mimeType |-> "text/plain", extension |-> "txt"])
        ELSE Some([content |-> csvContent(result[1]),
                   mimeType |-> "text/csv", extension |-> "csv"])]
  /\ UNCHANGED <<appState, isDragging, uploads, alertOpen>>

ViewerNext ==
  \/ \E tab \in Tabs : setActiveTab(tab)
  \/ handleDownload

ViewerSpec == ViewerInit /\ [][ViewerNext]_vars

TypeOK ==
  /\ status \in ParseStatus
  /\ Len(uploads) <= MaxUploads
  /\ isDragging \in BOOLEAN
  /\ alertOpen \in BOOLEAN

(* ------------------------------ helpers -------------------------------- *)

RunIds == 1..MaxUploads

Settled(p) == p.st \in {"fulfilled", "rejected"}

\* the step at which the continuation of run r's await runs
JoinStep(r) ==
  /\ r \in Runs
  /\ uploads[r].join = "pending"
  /\ uploads'[r].join # "pending"

(* ------------------------------- claims -------------------------------- *)

\* C1: a drop or a file-input change whose first file has a MIME type other
\* than "application/pdf" starts no upload (neither branch is invoked) and
\* leaves status, result, errorMsg and file as they were; unless an upload
\* is being processed it is reported by the alert.
C1_NonPdfRejected ==
  [][\A f \in Files :
        (f.type # "application/pdf"
         /\ (handleDrop(<<f>>) \/ handleFileChange(<<f>>)))
        => /\ UNCHANGED <<status, result, errorMsg, file, uploads>>
           /\ ~isLoading => alertOpen']_vars

\* a non-PDF file has just been refused with the alert, after a failed upload
C1_Witness == alertOpen /\ status = "ERROR"

\* C2: when the continuation runs with both branches fulfilled, the stored
\* result has every field of the remote result with the same value, its
\* standardRawText is the local branch's string, and status is SUCCESS.
C2_MergeKeepsRemoteFields ==
  [][\A r \in RunIds :
        (JoinStep(r) /\ uploads[r].remote.st = "fulfilled"
                     /\ uploads[r].local.st = "fulfilled")
        => /\ status' = "SUCCESS"
           /\ result' # Null
           /\ \A k \in DOMAIN uploads[r].remote.val[1] :
                 /\ k \in DOMAIN result'[1]
                 /\ result'[1][k] = uploads[r].remote.val[1][k]
           /\ "standardRawText" \in DOMAIN result'[1]
           /\ result'[1]["standardRawText"] = uploads[r].local.val[1]]_vars

\* a merged result with all schema fields, usage and a two-page raw text
C2_Witness ==
  /\ status = "SUCCESS"
  /\ result # Null
  /\ DOMAIN result[1] =
       {"metadata", "pages", "transactions", "tokenUsage", "standardRawText"}
  /\ result[1]["standardRawText"] =
       "--- PAGE 1 ---\n\nA B\n\n--- PAGE 2 ---\n\nC\n\n"

\* C3: once the remote branch of a run is rejected, status becomes ERROR,
\* whatever the local branch has done; such a run builds no result, result
\* is null from the rejection through ERROR, and a step of the local branch
\* of a run whose join was rejected changes neither status nor result.
C3_RemoteFailureIsError ==
  /\ \A r \in RunIds :
        (r \in Runs /\ uploads[r].remote.st = "rejected"
                    /\ uploads[r].join = "pending")
        ~> (r \in Runs /\ uploads[r].join = "rejected" /\ status = "ERROR"
                       /\ result = Null)
  /\ [](\A r \in Runs :
          uploads[r].remote.st = "rejected"
          => /\ uploads[r].built = 0
             /\ uploads[r].join # "fulfilled"
             /\ (r = Len(uploads)
                 => result = Null /\ status \in {"PROCESSING", "ERROR"}))
  /\ [][\A r \in RunIds :
          (r \in Runs /\ uploads[r].join = "rejected"
                      /\ uploads'[r].local # uploads[r].local)
          => UNCHANGED <<status, result, errorMsg, file>>]_vars

\* ERROR was reached while the local branch is still reading pages
C3_Witness ==
  /\ status = "ERROR"
  /\ result = Null
  /\ uploads # <<>>
  /\ uploads[Len(uploads)].join = "rejected"
  /\ uploads[Len(uploads)].local.st = "getTextContent"

\* C4: the local branch is never rejected; a throw at any of its awaits
\* fulfils it with the sentinel; and with a fulfilled remote branch the run
\* still reaches SUCCESS with standardRawText equal to the sentinel.
C4_LocalFailureDegrades ==
  /\ [](\A r \in Runs :
          /\ uploads[r].local.st # "rejected"
          /\ uploads[r].local.threw
             => /\ uploads[r].local.st = "fulfilled"
                /\ uploads[r].join = "pending"
                   => uploads[r].local.val = Some(LocalSentinel))
  /\ [][\A r \in RunIds :
          (JoinStep(r) /\ uploads[r].local.threw
                       /\ uploads[r].remote.st = "fulfilled")
          => /\ status' = "SUCCESS"
             /\ result' # Null
             /\ result'[1]["standardRawText"] = LocalSentinel]_vars
  /\ \A r \in RunIds :
        (r \in Runs /\ uploads[r].local.threw
                    /\ uploads[r].remote.st = "fulfilled"
                    /\ uploads[r].join = "pending")
        ~> (r \in Runs /\ uploads[r].join = "fulfilled" /\ status = "SUCCESS"
                       /\ result # Null
                       /\ result[1]["standardRawText"] = LocalSentinel)

\* SUCCESS with the sentinel as raw text after the local branch threw
C4_Witness ==
  /\ status = "SUCCESS"
  /\ result # Null
  /\ result[1]["standardRawText"] = LocalSentinel
  /\ "transactions" \in DOMAIN result[1]

\* C5 as stated: status leaves PROCESSING only when both branches of the
\* upload have settled (a branch that never settles keeps it PROCESSING).
C5_Original ==
  status \in {"SUCCESS", "ERROR"}
  => /\ Settled(uploads[Len(uploads)].remote)
     /\ Settled(uploads[Len(uploads)].local)

\* C5 amended: while the join of a run is pending, status stays PROCESSING
\* as long as the remote branch has not settled, and as long as the local
\* branch has not settled unless the remote branch is rejected (then the
\* join fails fast and status becomes ERROR); SUCCESS needs both settled.
C5_HangKeepsProcessing ==
  /\ [](status \in {"SUCCESS", "ERROR"}
         => Settled(uploads[Len(uploads)].remote))
  /\ [](status = "SUCCESS" => uploads[Len(uploads)].local.st = "fulfilled")
  /\ [][\A r \in RunIds :
          (/\ r \in Runs
           /\ uploads[r].join = "pending"
           /\ \/ ~Settled(uploads[r].remote)
              \/ ~Settled(uploads[r].local) /\ uploads[r].remote.st # "rejected")
          => status = "PROCESSING" /\ status' = "PROCESSING"]_vars

\* the local branch is done and the remote call has not answered
C5_Witness ==
  /\ status = "PROCESSING"
  /\ uploads[Len(uploads)].remote.st = "calling"
  /\ uploads[Len(uploads)].local.st = "fulfilled"
  /\ uploads[Len(uploads)].join = "pending"

\* C6: every run calls each branch once; its join settles at most once, as
\* fulfilled with status SUCCESS and one result built, or as rejected with
\* status ERROR and none; and a run whose branches have both settled gets
\* its join settled.
C6_OneTerminalOutcome ==
  /\ [](\A r \in Runs :
          /\ uploads[r].remote.calls = 1
          /\ uploads[r].local.calls = 1
          /\ uploads[r].built = (IF uploads[r].join = "fulfilled" THEN 1 ELSE 0))
  /\ [][\A r \in RunIds : r \in Runs =>
          /\ uploads[r].join # "pending" => uploads'[r].join = uploads[r].join
          /\ JoinStep(r) =>
               \/ /\ uploads'[r].join = "fulfilled"
                  /\ status' = "SUCCESS" /\ result' # Null /\ errorMsg' = Null
               \/ /\ uploads'[r].join = "rejected"
                  /\ status' = "ERROR" /\ result' = Null /\ errorMsg' # Null]_vars
  /\ \A r \in RunIds :
        (r \in Runs /\ Settled(uploads[r].remote) /\ Settled(uploads[r].local))
        ~> (r \in Runs /\ uploads[r].join # "pending")

\* one run ended in ERROR, a later one in SUCCESS
C6_Witness ==
  /\ Len(uploads) = 2
  /\ uploads[1].join = "rejected" /\ uploads[1].built = 0
  /\ Settled(uploads[1].local)
  /\ uploads[2].join = "fulfilled" /\ uploads[2].built = 1
  /\ status = "SUCCESS"

\* C7 as stated: at most one remote call and at most one local call are in
\* flight at any time.
C7_Original ==
  /\ Cardinality({r \in Runs : ~Settled(uploads[r].remote)}) <= 1
  /\ Cardinality({r \in Runs : ~Settled(uploads[r].local)}) <= 1

\* C7 amended: no step taken while status is PROCESSING starts an upload;
\* at most one run awaits its join, it is the latest one and status is
\* PROCESSING exactly then; at most one remote call is in flight.
C7_NoUploadWhileProcessing ==
  /\ [][status = "PROCESSING" => Len(uploads') = Len(uploads)]_vars
  /\ [](/\ Cardinality({r \in Runs : uploads[r].join = "pending"}) <= 1
        /\ Cardinality({r \in Runs : ~Settled(uploads[r].remote)}) <= 1
        /\ \A r \in Runs :
             (uploads[r].join = "pending" \/ ~Settled(uploads[r].remote))
             => r = Len(uploads) /\ status = "PROCESSING"
        /\ status = "PROCESSING" => uploads[Len(uploads)].join = "pending")

\* the second upload is being processed while the local call of the first,
\* failed, upload is still running
C7_Witness ==
  /\ status = "PROCESSING"
  /\ Len(uploads) = 2
  /\ uploads[1].join = "rejected" /\ ~Settled(uploads[1].local)
  /\ uploads[2].join = "pending" /\ ~Settled(uploads[2].local)
  /\ ~Settled(uploads[2].remote)

\* C8: after a reset, a step of a branch or join of any earlier run leaves
\* status IDLE and result, errorMsg and file null.
C8_CompletionAfterResetIgnored ==
  /\ [](status = "IDLE" => result = Null /\ errorMsg = Null /\ file = Null)
  /\ [][\A r \in RunIds :
          (r \in Runs /\ status = "IDLE" /\ uploads'[r] # uploads[r])
          => /\ status' = "IDLE"
             /\ result' = Null /\ errorMsg' = Null /\ file' = Null]_vars

\* the user has reset while a local call of an earlier run is on its last
\* await
C8_Witness ==
  /\ status = "IDLE"
  /\ \E r \in Runs :
       /\ uploads[r].local.st = "getTextContent"
       /\ uploads[r].local.i = uploads[r].local.doc.numPages

C10_TokenUsageDefaults ==
  /\ [](\A r \in Runs :
          (uploads[r].join = "pending" /\ uploads[r].remote.st = "fulfilled")
          => LET u  == uploads[r].remote.response[1].usageMetadata
                 tu == uploads[r].remote.val[1]["tokenUsage"]
             IN  /\ DOMAIN tu = {"promptTokens", "responseTokens", "totalTokens"}
                 /\ \A p \in { <<"promptTokens", "promptTokenCount">>,
                                <<"responseTokens", "candidatesTokenCount">>,
                                <<"totalTokens", "totalTokenCount">> } :
                      IF u # Null /\ p[2] \in DOMAIN u[1]
                      THEN tu[p[1]] = u[1][p[2]]
                      ELSE tu[p[1]] = 0)
  /\ [][\A r \in RunIds :
          (JoinStep(r) /\ uploads'[r].join = "fulfilled")
          => /\ result' # Null
             /\ "tokenUsage" \in DOMAIN result'[1]
             /\ result'[1]["tokenUsage"] = uploads[r].remote.val[1]["tokenUsage"]]_vars

\* a merged result whose usage has one reported counter and two defaults
C10_Witness ==
  /\ status = "SUCCESS"
  /\ result # Null
  /\ result[1]["tokenUsage"] =
       [promptTokens |-> 3, responseTokens |-> 0, totalTokens |-> 0]

\* C11: while status is SUCCESS the stored result and the stored file do not
\* change; the only step that changes them is the reset, which discards both
\* and returns to IDLE.
C11_ResultFrozenInSuccess ==
  [][status = "SUCCESS"
     => \/ result' = result /\ file' = file /\ status' = "SUCCESS"
        \/ /\ status' = "IDLE"
           /\ result' = Null
           /\ file' = Null
           /\ errorMsg' = Null]_vars

\* a result is on screen while the local call of an earlier, failed run is
\* still working
C11_Witness ==
  /\ status = "SUCCESS"
  /\ result # Null
  /\ \E r \in Runs :
       /\ uploads[r].join = "rejected"
       /\ uploads[r].local.st \in {"getDocument", "getPage", "getTextContent"}

\* C12: when the await of a run resumes, status, result and errorMsg are a
\* function of what the two branches of that run settled with and of nothing
\* else (not of the order in which they settled, of earlier runs or of the
\* rest of the state); a step of one branch leaves the other branch, and
\* every other run, as it was.
C12_OutcomeFromBranchesOnly ==
  /\ [][\A r \in RunIds :
          JoinStep(r)
          => LET rem == uploads[r].remote
                 loc == uploads[r].local
             IN  <<status', result', errorMsg'>> =
                   IF rem.st = "rejected"
                   THEN <<"ERROR", Null,
                          IF "message" \in DOMAIN rem.val[1] /\ rem.val[1]["message"] # ""
                          THEN Some(rem.val[1]["message"])
                          ELSE Some("An unknown error occurred while parsing the PDF.")>>
                   ELSE <<"SUCCESS",
                          Some([k \in DOMAIN rem.val[1] \cup {"standardRawText"} |->
                                  IF k = "standardRawText" THEN loc.val[1]
                                  ELSE rem.val[1][k]]),
                          Null>>]_vars
  /\ [][\A r \in RunIds :
          (r \in Runs /\ ~JoinStep(r))
          => /\ uploads'[r].remote = uploads[r].remote
                \/ uploads'[r].local = uploads[r].local
             /\ uploads'[r] # uploads[r]
                => \A q \in Runs \ {r} : uploads'[q] = uploads[q]]_vars

\* a run has succeeded after an earlier run had failed
C12_Witness ==
  /\ status = "SUCCESS"
  /\ errorMsg = Null
  /\ Len(uploads) = 2
  /\ uploads[1].join = "rejected"
  /\ uploads[2].join = "fulfilled"

\* C17: result is non-null exactly when status is SUCCESS, errorMsg is
\* non-null exactly when status is ERROR, and file is null exactly when
\* status is IDLE.
C17_StateFieldsFollowStatus ==
  /\ result # Null <=> status = "SUCCESS"
  /\ errorMsg # Null <=> status = "ERROR"
  /\ file = Null <=> status = "IDLE"

\* back at IDLE after a success and a reset
C17_Witness ==
  /\ status = "IDLE"
  /\ file = Null
  /\ \E r \in Runs : uploads[r].join = "fulfilled"

\* C18: status starts at IDLE and changes only along IDLE -> PROCESSING,
\* ERROR -> PROCESSING (an accepted upload), PROCESSING -> SUCCESS,
\* PROCESSING -> ERROR (the await resumes) and SUCCESS -> IDLE (reset).
C18_StatusTransitions ==
  /\ status = "IDLE"
  /\ [](status \in {"IDLE", "PROCESSING", "SUCCESS", "ERROR"})
  /\ [][\/ status' = status
        \/ /\ <<status, status'>> \in {<<"IDLE", "PROCESSING">>, <<"ERROR", "PROCESSING">>}
           /\ Len(uploads') = Len(uploads) + 1
        \/ /\ <<status, status'>> \in {<<"PROCESSING", "SUCCESS">>, <<"PROCESSING", "ERROR">>}
           /\ \E r \in RunIds : JoinStep(r)
        \/ /\ <<status, status'>> = <<"SUCCESS", "IDLE">>
           /\ uploads' = uploads]_vars

\* a second upload is processing after success, reset and a new selection
C18_Witness ==
  /\ status = "PROCESSING"
  /\ Len(uploads) = 2
  /\ uploads[1].join = "fulfilled"

\* C13: when parsePdfLocal returns from its try block, its text is, for the
\* pages 1..numPages in ascending order and each exactly once, the marker
\* "--- PAGE i ---", a blank line, the strs of the page's items joined by
\* single spaces, and a blank line; it is the empty string for a document
\* without pages.
C13_LocalTextFormat ==
  \A r \in Runs :
    (/\ uploads[r].join = "pending"
     /\ uploads[r].local.st = "fulfilled"
     /\ ~uploads[r].local.threw)
    => LET doc == uploads[r].local.doc
           spaced(items) ==
             LET sj[k \in 0..Len(items)] ==
                   IF k = 0 THEN ""
                   ELSE IF k = 1 THEN items[1]
                   ELSE sj[k - 1] \o " " \o items[k]
             IN  sj[Len(items)]
           text[n \in 0..doc.numPages] ==
             IF n = 0 THEN ""
             ELSE text[n - 1] \o "--- PAGE " \o ToString(n) \o " ---\n\n"
                              \o spaced(doc.items[n]) \o "\n\n"
       IN  /\ uploads[r].local.val = Some(text[doc.numPages])
           /\ doc.numPages = 0 => uploads[r].local.val = Some("")

\* the text of a document of two pages: an empty item before "A", then a
\* page without items
C13_Witness ==
  \E r \in Runs :
    /\ uploads[r].local.st = "fulfilled"
    /\ ~uploads[r].local.threw
    /\ uploads[r].local.doc = Document(<< <<"", "A">>, <<>> >>)
    /\ uploads[r].local.val = Some("--- PAGE 1 ---\n\n A\n\n--- PAGE 2 ---\n\n\n\n")

\* C14: in a CSV export the description field of every row is the
\* description with each double quote doubled, wrapped in double quotes, so
\* that reading the field back (dropping the outer quotes and un-doubling
\* the quotes inside) gives exactly the description.
C14_DescriptionRoundTrip ==
  (/\ status = "SUCCESS"
   /\ viewer.download # Null
   /\ viewer.download[1].extension = "csv")
  => \A k \in 1..Len(result[1]["transactions"]) :
       LET d     == result[1]["transactions"][k].description
           f     == rowCells(result[1]["transactions"][k])[3]
           inner == SubSeq(f, 2, Len(f) - 1)
           text  == viewer.download[1].content
           quotes(q) == Cardinality({i \in 1..Len(q) : q[i] = "\""})
           \* the text read from position i of inner on
           und[i \in 1..Len(inner) + 1] ==
             IF i > Len(inner) THEN <<>>
             ELSE IF inner[i] # "\"" THEN <<inner[i]>> \o und[i + 1]
             ELSE IF i + 1 <= Len(inner) /\ inner[i + 1] = "\""
                  THEN <<"\"">> \o und[i + 2]
                  ELSE <<"lone quote">>
       IN  /\ Len(f) >= 2
           /\ f[1] = "\""
           /\ f[Len(f)] = "\""
           /\ Len(inner) = Len(d) + quotes(d)
           /\ quotes(inner) = 2 * quotes(d)
           /\ und[1] = d
           /\ \E p \in 1..Len(text) : SubSeq(text, p, p + Len(f) - 1) = f

\* a CSV was saved of a transaction whose description is a double quote
\* followed by a comma
C14_Witness ==
  /\ viewer.download # Null
  /\ viewer.download[1].extension = "csv"
  /\ result[1]["transactions"][1].description = <<"\"", ",">>

\* C15 as stated: a CSV export is the header row, then one row per
\* transaction in list order, joined by "\n"; read as CSV it has exactly
\* five fields per row, equal to the transaction's post_date, trans_date,
\* description, amount and currency.
C15_RowsParseToFiveFields ==
  (/\ status = "SUCCESS"
   /\ viewer.download # Null
   /\ viewer.download[1].extension = "csv")
  => LET text == viewer.download[1].content
         txs  == result[1]["transactions"]
         \* position i lies inside a quoted field: an odd number of quotes
         \* precede it
         inQuotes(i) == Cardinality({j \in 1..i - 1 : text[j] = "\""}) % 2 = 1
         breaks(c, lo, hi) == {i \in lo..hi : text[i] = c /\ ~inQuotes(i)}
         \* the stretches of lo..hi between the positions of S, in order
         pieces(S, lo, hi) ==
           LET at(k) == IF k = 0 THEN lo - 1
                        ELSE IF k = Cardinality(S) + 1 THEN hi + 1
                        ELSE CHOOSE x \in S : Cardinality({y \in S : y < x}) = k - 1
           IN  [k \in 1..Cardinality(S) + 1 |-> <<at(k - 1) + 1, at(k) - 1>>]
         \* a field as read: without its outer quotes, doubled quotes single
         read(f) ==
           IF Len(f) >= 2 /\ f[1] = "\"" /\ f[Len(f)] = "\""
           THEN LET inner == SubSeq(f, 2, Len(f) - 1)
                    und[i \in 1..Len(inner) + 1] ==
                      IF i > Len(inner) THEN <<>>
                      ELSE IF inner[i] # "\"" THEN <<inner[i]>> \o und[i + 1]
                      ELSE IF i + 1 <= Len(inner) /\ inner[i + 1] = "\""
                           THEN <<"\"">> \o und[i + 2]
                           ELSE <<"lone quote">>
                IN  und[1]
           ELSE f
         fields(row) ==
           LET cells == pieces(breaks(",", row[1], row[2]), row[1], row[2])
           IN  [c \in 1..Len(cells) |-> read(SubSeq(text, cells[c][1], cells[c][2]))]
         lines  == pieces(breaks("\n", 1, Len(text)), 1, Len(text))
         parsed == [r \in 1..Len(lines) |-> fields(lines[r])]
         dv(c) == CHOOSE n \in 0..9 : Digit[n + 1] = c
         nat(ds) == LET v[i \in 0..Len(ds)] ==
                          IF i = 0 THEN 0 ELSE 10 * v[i - 1] + dv(ds[i])
                    IN  v[Len(ds)]
         isNat(ds) == Len(ds) >= 1 /\ \A i \in 1..Len(ds) : \E n \in 0..9 : Digit[n + 1] = ds[i]
         \* a decimal numeral of at most two decimals is the number a
         isAmount(f, a) ==
           LET neg  == Len(f) >= 1 /\ f[1] = "-"
               body == IF neg THEN Tail(f) ELSE f
               dots == {i \in 1..Len(body) : body[i] = "."}
               p    == CHOOSE i \in dots : TRUE
               whole == IF dots = {} THEN body ELSE SubSeq(body, 1, p - 1)
               frac  == IF dots = {} THEN <<>> ELSE SubSeq(body, p + 1, Len(body))
           IN  /\ Cardinality(dots) <= 1
               /\ isNat(whole)
               /\ dots # {} => isNat(frac) /\ Len(frac) <= 2
               /\ LET m == 100 * nat(whole)
                           + (IF Len(frac) = 1 THEN 10 * nat(frac) ELSE nat(frac))
                  IN  a = IF neg THEN 0 - m ELSE m
     IN  /\ Len(parsed) = 1 + Len(txs)
         /\ parsed[1] = headers
         /\ \A k \in 1..Len(txs) :
              /\ Len(parsed[k + 1]) = 5
              /\ parsed[k + 1][1] = txs[k].post_date
              /\ parsed[k + 1][2] = txs[k].trans_date
              /\ parsed[k + 1][3] = txs[k].description
              /\ isAmount(parsed[k + 1][4], txs[k].amount)
              /\ parsed[k + 1][5] = txs[k].currency

\* C16 as stated: every row of the transactions table shows |amount| with
\* two decimals, with a leading "+" exactly when the amount is negative and
\* none when it is positive; the rows with a "+" are exactly the rows
\* highlighted as credits.
C16_PlusExactlyOnCredits ==
  (status = "SUCCESS" /\ viewer.table # Null)
  => \A k \in 1..Len(viewer.table[1]) :
       LET tx   == result[1]["transactions"][k]
           cell == viewer.table[1][k].amount
           m    == cell.magnitude
           dv(c) == CHOOSE n \in 0..9 : Digit[n + 1] = c
           nat(ds) == LET v[i \in 0..Len(ds)] ==
                            IF i = 0 THEN 0 ELSE 10 * v[i - 1] + dv(ds[i])
                      IN  v[Len(ds)]
           isNat(ds) == Len(ds) >= 1 /\ \A i \in 1..Len(ds) : \E n \in 0..9 : Digit[n + 1] = ds[i]
       IN  /\ Len(m) >= 4
           /\ m[Len(m) - 2] = "."
           /\ isNat(SubSeq(m, 1, Len(m) - 3))
           /\ isNat(SubSeq(m, Len(m) - 1, Len(m)))
           /\ 100 * nat(SubSeq(m, 1, Len(m) - 3)) + nat(SubSeq(m, Len(m) - 1, Len(m)))
                = IF tx.amount < 0 THEN 0 - tx.amount ELSE tx.amount
           /\ cell.sign = "+" <=> tx.amount < 0
           /\ tx.amount > 0 => cell.sign = ""
           /\ cell.sign = "+" <=> cell.className = "text-emerald-400"

====
